---- MODULE Spec2Model ----
(***************************************************************************)
(* The skill-tree renderer: the data model of src/src/tree.rs and the      *)
(* graphviz emitter of src/src/graphviz.rs.                                *)
(*                                                                         *)
(* Text.  A Rust String whose characters the code inspects (names,         *)
(* requirement tokens, labels) is a sequence of one-character strings;     *)
(* Str turns it into the text that format! embeds.  A String that is only  *)
(* copied or compared whole (status names, colours, tags, hrefs, ports) is *)
(* a TLA+ string.  The sink is modelled line by line: every writeln! adds  *)
(* one line record, whose field text is the line without its newline; the  *)
(* other fields of a line record repeat the arguments the line was         *)
(* formatted from.                                                         *)
(***************************************************************************)
EXTENDS Integers, Sequences, FiniteSets, TLC

\* ---------------------------------------------------------------- bounds
MaxGroups == 2
MaxItems == 2
MaxReqs == 2
MaxGoals == 2

\* ------------------------------------------------------------ Option<T>
None == [some |-> FALSE]
Some(x) == [some |-> TRUE, v |-> x]

\* Option::or
Or(a, b) == IF a.some THEN a ELSE b

\* ----------------------------------------------------------------- text
RECURSIVE Str(_)
Str(s) == IF s = <<>> THEN "" ELSE Head(s) \o Str(Tail(s))

\* str::find of a one-character pattern: the first index holding it, 0 for
\* Rust's None.
Find(s, c) ==
    IF \E k \in 1..Len(s) : s[k] = c
    THEN CHOOSE k \in 1..Len(s) : s[k] = c /\ \A m \in 1..(k - 1) : s[m] # c
    ELSE 0

\* ----------------------------------------------------------- data model
StatusStyle(emoji, bgcolor, fontcolor, start_tag, end_tag) ==
    [emoji |-> emoji, bgcolor |-> bgcolor, fontcolor |-> fontcolor,
     start_tag |-> start_tag, end_tag |-> end_tag]

\* #[derive(Default)]
StatusStyleDefault == StatusStyle(None, None, None, "", "")

\* The emoji are opaque text to the renderer; ASCII stands for the glyphs.
WATCH_EMOJI == "(watch)"
HAMMER_WRENCH_EMOJI == "(hammer)"
CHECKED_BOX_EMOJI == "(checked)"
RAISED_HAND_EMOJI == "(hand)"

default_status_kinds ==
    [n \in {"Blocked", "Unassigned", "Assigned", "Complete"} |->
        CASE n = "Blocked" ->
                StatusStyle(Some(WATCH_EMOJI), Some("cornsilk"), None,
                            "<i><font color=\"lightgrey\">", "</font></i>")
          [] n = "Unassigned" ->
                StatusStyle(Some(RAISED_HAND_EMOJI), Some("cornsilk"), Some("red"), "", "")
          [] n = "Assigned" ->
                StatusStyle(Some(HAMMER_WRENCH_EMOJI), Some("cornsilk"), None, "", "")
          [] n = "Complete" ->
                StatusStyle(Some(CHECKED_BOX_EMOJI), Some("cornsilk"), None, "<s>", "</s>")]

default_status == Some("Unassigned")

Goal(name, label, requires, href) ==
    [name |-> name, label |-> label, requires |-> requires, href |-> href]

Group(name, label, requires, items, status, href, header_color) ==
    [name |-> name, label |-> label, requires |-> requires, items |-> items,
     width |-> None, status |-> status, href |-> href, header_color |-> header_color]

Item(label, href, port, requires, status) ==
    [label |-> label, href |-> href, port |-> port, requires |-> requires,
     status |-> status]

SkillTree(status, dflt, group, goal) ==
    [status |-> status, default_status |-> dflt, group |-> group, goal |-> goal]

\* SkillTree::goals: the goals, none when the field is absent.
goals(tree) == IF tree.goal.some THEN tree.goal.v ELSE <<>>

\* SkillTree::groups
groups(tree) == tree.group

\* Group::items
items(group) == group.items

\* SkillTree::is_goal
is_goal(tree, name) == \E k \in 1..Len(goals(tree)) : goals(tree)[k].name = name

\* HashMap::get on the style registry.
Get(registry, key) ==
    IF key \in DOMAIN registry THEN Some(registry[key]) ELSE None

\* Option::unwrap_or
unwrap_or(opt, dflt) == IF opt.some THEN opt.v ELSE dflt

RECURSIVE Dedup(_)
Dedup(s) ==
    IF s = <<>> THEN <<>>
    ELSE LET front == Dedup(SubSeq(s, 1, Len(s) - 1)) IN
         IF \E k \in 1..(Len(s) - 1) : s[k] = s[Len(s)] THEN front
         ELSE Append(front, s[Len(s)])

\* Requirements, were repeated tokens dropped.
Requirements_Dedup(opt) == IF opt.some THEN Dedup(opt.v) ELSE <<>>

\* `if let Some(requires) = &x.requires { for requirement in requires`: the
\* tokens the loop body runs for.
Requirements(opt) == IF opt.some THEN opt.v ELSE <<>>

\* ------------------------------------------------------------ rendering
\* port_name, were the goal test made on the name before the port is split off.
port_name_GoalFirst(tree, requires, mode) ==
    LET index == Find(requires, ":")
        name  == IF index # 0 THEN SubSeq(requires, 1, index - 1) ELSE requires
    IN  IF is_goal(tree, name)
        THEN "\"" \o Str(name) \o "\""
        ELSE IF index # 0
        THEN "\"" \o Str(name) \o "\":_"
             \o Str(SubSeq(requires, index + 1, Len(requires))) \o "_" \o mode
        ELSE "\"" \o Str(requires) \o "\":all"

\* SkillTree::port_name
port_name(tree, requires, mode) ==
    LET index == Find(requires, ":") IN
    IF index # 0
    THEN LET name == SubSeq(requires, 1, index - 1)
             port == SubSeq(requires, index + 1, Len(requires))
         IN  "\"" \o Str(name) \o "\":_" \o Str(port) \o "_" \o mode
    ELSE IF is_goal(tree, requires)
    THEN "\"" \o Str(requires) \o "\""
    ELSE "\"" \o Str(requires) \o "\":all"

\* htmlescape::encode_minimal: each of the five minimal entities replaces its
\* character; the result is held as one piece per input character.
encode_minimal(s) ==
    [k \in 1..Len(s) |->
        CASE s[k] = "\"" -> "&quot;"
          [] s[k] = "&" -> "&amp;"
          [] s[k] = "'" -> "&#x27;"
          [] s[k] = "<" -> "&lt;"
          [] s[k] = ">" -> "&gt;"
          [] OTHER -> s[k]]

\* str::replace of one character (no entity holds a newline).
replace(s, from, to) == [k \in 1..Len(s) |-> IF s[k] = from THEN to ELSE s[k]]

escape(s) == replace(encode_minimal(s), "\n", "<br/>")

attribute_str(label, text, suffix) ==
    IF text.some
    THEN " " \o label \o "=\"" \o text.v \o suffix \o "\""
    ELSE ""

Line(kind, text) == [kind |-> kind, text |-> text]

write_goal_label(goal) ==
    LET label == escape(unwrap_or(goal.label, goal.name)) IN
    << [kind |-> "goal_label", text |-> "  label = \"" \o Str(label) \o "\"",
        label |-> label] >>

\* item_status, were the group's status looked at before the item's.
item_status_GroupFirst(tree, group, item) ==
    Or(Or(group.status, item.status), tree.default_status)

\* The status name of an item: its own, else its group's, else the tree's.
item_status(tree, group, item) ==
    Or(Or(item.status, group.status), tree.default_status)

\* item_status.and_then(|x| tree.status.get(x)), cloned, or the default style.
resolve_style(tree, status) ==
    LET found == IF status.some THEN Get(tree.status, status.v) ELSE None IN
    IF found.some THEN found.v ELSE StatusStyleDefault

\* underline, were every linked item underlined.
underline_Always(item, style) ==
    IF item.href.some
    THEN [style EXCEPT !.start_tag = "<u>", !.end_tag = "</u>"]
    ELSE style

\* The implicit underline, applied to the clone.
underline(item, style) ==
    IF item.href.some /\ style.start_tag = ""
    THEN [style EXCEPT !.start_tag = "<u>", !.end_tag = "</u>"]
    ELSE style

\* The label as the item row embeds it.
row_label(item) == item.label

\* One item row of the group table.
item_row(tree, group, g, i) ==
    LET item      == group.items[i]
        resolved  == resolve_style(tree, item_status(tree, group, item))
        fontcolor == attribute_str("fontcolor", resolved.fontcolor, "")
        bgcolor   == attribute_str("bgcolor", resolved.bgcolor, "")
        href      == attribute_str("href", item.href, "")
        style     == underline(item, resolved)
        port      == IF item.port.some THEN Some("_" \o item.port.v) ELSE None
        port_in   == attribute_str("port", port, "_in")
        port_out  == attribute_str("port", port, "_out")
        emoji     == unwrap_or(style.emoji, "")
        label     == row_label(item)
    IN  [kind |-> "row", g |-> g, i |-> i,
         text |-> "    <tr><td" \o bgcolor \o port_in \o ">" \o emoji \o "</td><td"
                  \o fontcolor \o bgcolor \o href \o port_out \o ">"
                  \o style.start_tag \o Str(label) \o style.end_tag \o "</td></tr>",
         emoji |-> emoji, fontcolor |-> fontcolor, bgcolor |-> bgcolor,
         href |-> href, port_in |-> port_in, port_out |-> port_out,
         label |-> label, start_tag |-> style.start_tag, end_tag |-> style.end_tag]

\* write_group_label, were the rows of items without a port left out.
write_group_label_SkipPortless(tree, g) ==
    LET group        == groups(tree)[g]
        label        == escape(unwrap_or(group.label, group.name))
        group_href   == attribute_str("href", group.href, "")
        header_color == unwrap_or(group.header_color, "darkgoldenrod")
    IN  << Line("table_open", "  label = <<table>"),
           [kind |-> "group_header", g |-> g, label |-> label,
            text |-> "    <tr><td bgcolor=\"" \o header_color
                     \o "\" port=\"all\" colspan=\"2\"" \o group_href \o ">"
                     \o Str(label) \o "</td></tr>"] >>
        \o SelectSeq([i \in 1..Len(group.items) |-> item_row(tree, group, g, i)],
                     LAMBDA r : r.port_in # "")
        \o << Line("table_close", "  </table>>") >>

write_group_label(tree, g) ==
    LET group        == groups(tree)[g]
        label        == escape(unwrap_or(group.label, group.name))
        group_href   == attribute_str("href", group.href, "")
        header_color == unwrap_or(group.header_color, "darkgoldenrod")
    IN  << Line("table_open", "  label = <<table>"),
           [kind |-> "group_header", g |-> g, label |-> label,
            text |-> "    <tr><td bgcolor=\"" \o header_color
                     \o "\" port=\"all\" colspan=\"2\"" \o group_href \o ">"
                     \o Str(label) \o "</td></tr>"] >>
        \o [i \in 1..Len(group.items) |-> item_row(tree, group, g, i)]
        \o << Line("table_close", "  </table>>") >>

\* The four lines that open the digraph.
HeaderLines ==
    << Line("header", "digraph g {"),
       Line("header", "graph [ rankdir = \"LR\" ];"),
       Line("header", "node [ fontsize=\"16\", shape = \"ellipse\" ];"),
       Line("header", "edge [ ];") >>

\* One iteration of the first loop: the node of group g.
GroupNodeLines(tree, g) ==
    << [kind |-> "group_open", g |-> g,
        text |-> "\"" \o Str(groups(tree)[g].name) \o "\" ["] >>
    \o write_group_label(tree, g)
    \o << Line("attr", "  shape = \"none\""),
          Line("attr", "  margin = 0"),
          Line("node_close", "]") >>

\* One iteration of the second loop: the node of goal k.
GoalNodeLines(tree, k) ==
    << [kind |-> "goal_open", g |-> k,
        text |-> "\"" \o Str(goals(tree)[k].name) \o "\" ["] >>
    \o write_goal_label(goals(tree)[k])
    \o << Line("attr", "  shape = \"note\""),
          Line("attr", "  margin = 0"),
          Line("attr", "  style = \"filled\""),
          Line("attr", "  fillcolor = \"darkgoldenrod\""),
          Line("node_close", "]") >>

ClosingLine == Line("end", "}")

RECURSIVE Flatten(_)
Flatten(ss) == IF ss = <<>> THEN <<>> ELSE Head(ss) \o Flatten(Tail(ss))

\* The iterations of the edge loops' bodies, in the order the loops run them:
\* cat is the kind of list the token is in, g the group (or goal), i the item
\* (0 when the list is a group's or a goal's), t the token's place in its list.
Job(cat, g, i, t) == [cat |-> cat, g |-> g, i |-> i, t |-> t]

GroupJobs(tree, g) ==
    [t \in 1..Len(Requirements(groups(tree)[g].requires)) |-> Job("group", g, 0, t)]

\* ItemJobs, were an item without a port passed over instead of refused.
ItemJobs_SkipPortless(tree, g, i) ==
    IF items(groups(tree)[g])[i].port.some
    THEN [t \in 1..Len(Requirements(items(groups(tree)[g])[i].requires)) |-> Job("item", g, i, t)]
    ELSE <<>>

ItemJobs(tree, g, i) ==
    [t \in 1..Len(Requirements(items(groups(tree)[g])[i].requires)) |-> Job("item", g, i, t)]

GoalJobs(tree, k) ==
    [t \in 1..Len(Requirements(goals(tree)[k].requires)) |-> Job("goal", k, 0, t)]

\* The body of `for group in tree.groups()` of the edge phase: the group's own
\* requirements, then those of its items.
GroupBlockJobs(tree, g) ==
    GroupJobs(tree, g)
    \o Flatten([i \in 1..Len(items(groups(tree)[g])) |-> ItemJobs(tree, g, i)])

\* EdgeJobs, were the group-level edges of all groups emitted in a loop of
\* their own before the item-level edges.
EdgeJobs_ByCategory(tree) ==
    Flatten([g \in 1..Len(groups(tree)) |-> GroupJobs(tree, g)])
    \o Flatten([g \in 1..Len(groups(tree)) |->
                  Flatten([i \in 1..Len(items(groups(tree)[g])) |-> ItemJobs(tree, g, i)])])
    \o Flatten([k \in 1..Len(goals(tree)) |-> GoalJobs(tree, k)])

EdgeJobs(tree) ==
    Flatten([g \in 1..Len(groups(tree)) |-> GroupBlockJobs(tree, g)])
    \o Flatten([k \in 1..Len(goals(tree)) |-> GoalJobs(tree, k)])

\* The requirement token a job is about.
Token(tree, job) ==
    CASE job.cat = "group" -> groups(tree)[job.g].requires.v[job.t]
      [] job.cat = "item"  -> items(groups(tree)[job.g])[job.i].requires.v[job.t]
      [] job.cat = "goal"  -> goals(tree)[job.g].requires.v[job.t]

EdgeLine(job, src, dst) ==
    [kind |-> "edge", cat |-> job.cat, g |-> job.g, i |-> job.i, t |-> job.t,
     src |-> src, dst |-> dst, text |-> src \o " -> " \o dst \o ";"]

group_edge(tree, job) ==
    EdgeLine(job, port_name(tree, Token(tree, job), "out"),
             port_name(tree, groups(tree)[job.g].name, "in"))

\* The item's port is known to be present here.
item_edge(tree, job) ==
    EdgeLine(job, port_name(tree, Token(tree, job), "out"),
             "\"" \o Str(groups(tree)[job.g].name) \o "\":_"
                  \o items(groups(tree)[job.g])[job.i].port.v \o "_in")

goal_edge(tree, job) ==
    EdgeLine(job, port_name(tree, Token(tree, job), "out"),
             port_name(tree, goals(tree)[job.g].name, "in"))

\* ---------------------------------------------------------------- errors
Running == [kind |-> "running"]
Ok(string) == [kind |-> "ok", string |-> string]
IoError == [kind |-> "io"]
MissingPortError(item) ==
    [kind |-> "missing_port", label |-> item.label,
     msg |-> "missing port for: " \o Str(item.label)]

\* -------------------------------------------------------------- validate
item_validate(item) == TRUE
group_validate(group) == \A i \in 1..Len(group.items) : item_validate(group.items[i])
tree_validate(tree) == \A g \in 1..Len(tree.group) : group_validate(tree.group[g])

\* ---------------------------------------------------------------- inputs
basics == <<"b", "a", "s", "i", "c", "s">>
done == <<"d", "o", "n", "e">>
ghost == <<"g", "h", "o", "s", "t">>
basics_a == basics \o <<":", "a">>
done_x == done \o <<":", "x">>

Letter == <<"a", "b", "c", "d">>

\* Unique names: basics, g2, g3, ...; done, w2, w3, ...
GroupName(g) == IF g = 1 THEN basics ELSE <<"g", ToString(g)>>
GoalName(k) == IF k = 1 THEN done ELSE <<"w", ToString(k)>>
ItemLabel(g, i) == IF g = 1 THEN <<Letter[i]>> ELSE <<Letter[i], ToString(g)>>

\* A group name, a group's port, a goal name, a name of nothing.
Tokens == {basics, basics_a, done, ghost}

Seqs(S, n) == UNION {[1..m -> S] : m \in 0..n}

ReqChoices == {None} \cup {Some(s) : s \in Seqs(Tokens, MaxReqs)}

\* The requires lists a tree has where no other is chosen.
FillerGroupReq(g) == IF g = 1 THEN None ELSE Some(<<basics, done_x>>)
FillerItemReq(g, i) == IF i = 1 THEN None ELSE Some(<<basics_a>>)
FillerGoalReq(k) == IF k = 1 THEN Some(<<basics>>) ELSE Some(<<done, done>>)

NoPos == [cat |-> "none", g |-> 0, i |-> 0]

Positions(ng, ni, nk) ==
    {[cat |-> "group", g |-> g, i |-> 0] : g \in 1..ng}
    \cup {[cat |-> "item", g |-> g, i |-> i] : g \in 1..ng, i \in 1..ni}
    \cup {[cat |-> "goal", g |-> k, i |-> 0] : k \in 1..nk}

\* A tree of ng groups of ni items each and nk goals (no goal field when nk < 0),
\* with the built-in styles; the list at pos is req, the items in portless
\* declare no port.
EdgeTree(ng, ni, nk, pos, req, portless) ==
    SkillTree(
        default_status_kinds, default_status,
        [g \in 1..ng |->
            Group(GroupName(g), None,
                  IF pos = [cat |-> "group", g |-> g, i |-> 0] THEN req ELSE FillerGroupReq(g),
                  [i \in 1..ni |->
                      Item(ItemLabel(g, i), None,
                           IF <<g, i>> \in portless THEN None ELSE Some(Letter[i]),
                           IF pos = [cat |-> "item", g |-> g, i |-> i]
                           THEN req ELSE FillerItemReq(g, i),
                           None)],
                  None, None, None)],
        IF nk < 0 THEN None
        ELSE Some([k \in 1..nk |->
                 Goal(GoalName(k), None,
                      IF pos = [cat |-> "goal", g |-> k, i |-> 0] THEN req ELSE FillerGoalReq(k),
                      None)]))

\* One list of a tree of two groups of two items and one goal varies over
\* every choice; when the list is an item's, the item may declare no port.
TokenTrees ==
    UNION {{EdgeTree(2, 2, 1, pos, req, pl) :
                req \in ReqChoices, pl \in {{}, {<<pos.g, pos.i>>}}} :
           pos \in Positions(2, 2, 1)}

\* Up to two items of the full-size tree declare no port.
PortTrees ==
    {EdgeTree(MaxGroups, MaxItems, 1, NoPos, None, {p, q}) :
        p, q \in ((0..MaxGroups) \X (1..MaxItems))}

\* Every size of tree.
ShapeTrees ==
    {EdgeTree(ng, ni, nk, NoPos, None, {}) :
        ng \in 0..MaxGroups, ni \in 0..MaxItems, nk \in (-1)..MaxGoals}

\* A user-supplied style table; it replaces the built-in one.
CustomKinds ==
    [n \in {"Odd", "Bold"} |->
        IF n = "Odd"
        THEN StatusStyle(None, None, Some("blue"), "", "</b>")
        ELSE StatusStyle(Some("*"), Some("white"), None, "<b>", "</b>")]

Labels ==
    { <<"o", "k">>, <<"a", "<", "b", ">">>, <<"&", "\"">>, <<"l", "\n", "m">>, <<"'", "s">> }

\* One group of one item and one goal; statuses, hyperlink and labels vary.
StyleTree(registry, dflt, gstatus, istatus, href, label) ==
    SkillTree(
        registry, dflt,
        << Group(basics, IF href.some THEN Some(label) ELSE None, None,
                 << Item(label, href, Some("a"), None, istatus) >>,
                 gstatus, href, IF gstatus.some THEN Some("grey") ELSE None) >>,
        Some(<< Goal(done, IF href.some THEN None ELSE Some(label), Some(<<basics>>), href) >>))

StyleTrees ==
    {StyleTree(registry, dflt, gstatus, istatus, href, label) :
        registry \in {default_status_kinds, CustomKinds},
        dflt \in {None, default_status, Some("Bold")},
        gstatus \in {None, Some("Blocked"), Some("Odd")},
        istatus \in {None, Some("Complete"), Some("Odd")},
        href \in {None, Some("http://x")},
        label \in Labels}

Trees == TokenTrees \cup PortTrees \cup ShapeTrees \cup StyleTrees

\* ---------------------------------------------------------------- state
VARIABLES
    tree,       \* the SkillTree being rendered
    entry,      \* "to_graphviz" (the sink is a Vec) or "write_graphviz" (any sink)
    validated,  \* the result of validate(), once it was called
    pc,         \* the phase of write_graphviz
    idx,        \* the next iteration of the phase's loop
    out,        \* the lines the sink holds
    result,     \* what the entry point returned
    pass,       \* 1 for the first render of the tree, 2 for the second
    firstOut    \* the lines of the first render, once a second has started

vars == <<tree, entry, validated, pc, idx, out, result, pass, firstOut>>

Init ==
    /\ tree \in Trees
    /\ entry \in {"to_graphviz", "write_graphviz"}
    /\ validated = None
    /\ pc = "start"
    /\ idx = 0
    /\ out = <<>>
    /\ result = Running
    /\ pass = 1
    /\ firstOut = None

\* How many lines of a block the sink takes: all of them, or, for a sink that
\* can fail, any number before the write that fails.
Accepted(block) ==
    IF entry = "write_graphviz" THEN 0..Len(block) ELSE {Len(block)}

\* The value of the entry point after the closing line.
Returned(lines) ==
    IF entry = "to_graphviz" THEN Ok(Some(lines)) ELSE Ok(None)

\* Write, were the result of a failed writeln! noted and the pass carried on.
Write_Continue(block, nextPc, nextIdx, nextResult) ==
    \E n \in Accepted(block) :
        /\ out' = out \o SubSeq(block, 1, n)
        /\ pc' = nextPc
        /\ idx' = nextIdx
        /\ result' = IF n = Len(block) THEN nextResult ELSE IoError

\* The writeln!s of one step, each followed by `?`.
Write(block, nextPc, nextIdx, nextResult) ==
    \E n \in Accepted(block) :
        /\ out' = out \o SubSeq(block, 1, n)
        /\ IF n = Len(block)
           THEN pc' = nextPc /\ idx' = nextIdx /\ result' = nextResult
           ELSE pc' = "done" /\ idx' = idx /\ result' = IoError

\* SkillTree::validate, called before rendering.
Validate ==
    /\ pc = "start"
    /\ ~validated.some
    /\ validated' = Some(tree_validate(tree))
    /\ UNCHANGED <<tree, entry, pc, idx, out, result, pass, firstOut>>

WriteHeader ==
    /\ pc = "start"
    /\ Write(HeaderLines, "group_nodes", 1, result)
    /\ UNCHANGED <<tree, entry, validated, pass, firstOut>>

WriteGroupNode ==
    /\ pc = "group_nodes"
    /\ idx <= Len(groups(tree))
    /\ Write(GroupNodeLines(tree, idx), pc, idx + 1, result)
    /\ UNCHANGED <<tree, entry, validated, pass, firstOut>>

GroupNodesDone ==
    /\ pc = "group_nodes"
    /\ idx > Len(groups(tree))
    /\ pc' = "goal_nodes"
    /\ idx' = 1
    /\ UNCHANGED <<tree, entry, validated, out, result, pass, firstOut>>

WriteGoalNode ==
    /\ pc = "goal_nodes"
    /\ idx <= Len(goals(tree))
    /\ Write(GoalNodeLines(tree, idx), pc, idx + 1, result)
    /\ UNCHANGED <<tree, entry, validated, pass, firstOut>>

GoalNodesDone ==
    /\ pc = "goal_nodes"
    /\ idx > Len(goals(tree))
    /\ pc' = "edges"
    /\ idx' = 1
    /\ UNCHANGED <<tree, entry, validated, out, result, pass, firstOut>>

WriteGroupEdge ==
    /\ pc = "edges"
    /\ idx <= Len(EdgeJobs(tree))
    /\ EdgeJobs(tree)[idx].cat = "group"
    /\ Write(<<group_edge(tree, EdgeJobs(tree)[idx])>>, pc, idx + 1, result)
    /\ UNCHANGED <<tree, entry, validated, pass, firstOut>>

WriteItemEdge ==
    /\ pc = "edges"
    /\ idx <= Len(EdgeJobs(tree))
    /\ EdgeJobs(tree)[idx].cat = "item"
    /\ LET job  == EdgeJobs(tree)[idx]
           item == items(groups(tree)[job.g])[job.i]
       IN  IF item.port.some
           THEN Write(<<item_edge(tree, job)>>, pc, idx + 1, result)
           ELSE /\ result' = MissingPortError(item)
                /\ pc' = "done"
                /\ UNCHANGED <<idx, out>>
    /\ UNCHANGED <<tree, entry, validated, pass, firstOut>>

WriteGoalEdge ==
    /\ pc = "edges"
    /\ idx <= Len(EdgeJobs(tree))
    /\ EdgeJobs(tree)[idx].cat = "goal"
    /\ Write(<<goal_edge(tree, EdgeJobs(tree)[idx])>>, pc, idx + 1, result)
    /\ UNCHANGED <<tree, entry, validated, pass, firstOut>>

WriteClose ==
    /\ pc = "edges"
    /\ idx > Len(EdgeJobs(tree))
    /\ Write(<<ClosingLine>>, "done", idx, Returned(out \o <<ClosingLine>>))
    /\ UNCHANGED <<tree, entry, validated, pass, firstOut>>

\* The caller renders the same tree again, into a fresh sink.
Rerender ==
    /\ pc = "done"
    /\ pass = 1
    /\ result.kind = "ok"
    /\ firstOut' = Some(out)
    /\ out' = <<>>
    /\ pc' = "start"
    /\ idx' = 0
    /\ result' = Running
    /\ pass' = 2
    /\ UNCHANGED <<tree, entry, validated>>

Next ==
    \/ Validate
    \/ WriteHeader
    \/ WriteGroupNode
    \/ GroupNodesDone
    \/ WriteGoalNode
    \/ GoalNodesDone
    \/ WriteGroupEdge
    \/ WriteItemEdge
    \/ WriteGoalEdge
    \/ WriteClose
    \/ Rerender

Spec == Init /\ [][Next]_vars

\* =============================================================== claims
Finished == pc = "done"
Succeeded == pc = "done" /\ result.kind = "ok"
Failed == result.kind \in {"io", "missing_port"}

IsPrefix(s, t) == Len(s) <= Len(t) /\ SubSeq(t, 1, Len(s)) = s

IsEdge(l) == l.kind = "edge"
EdgesOf(lines) == SelectSeq(lines, IsEdge)

ItemPositions == {<<g, i>> : g \in 1..Len(tree.group), i \in 1..(MaxItems + 1)}

ItemAt(p) == tree.group[p[1]].items[p[2]]

\* The items with a non-empty requires list and no port.
Offending ==
    {p \in ItemPositions :
        /\ p[2] <= Len(tree.group[p[1]].items)
        /\ ItemAt(p).requires.some
        /\ ItemAt(p).requires.v # <<>>
        /\ ~ItemAt(p).port.some}

Before(p, q) == p[1] < q[1] \/ (p[1] = q[1] /\ p[2] < q[2])

FirstOffending == CHOOSE p \in Offending : \A q \in Offending : q = p \/ Before(p, q)

NoEdgeTargets(p) ==
    \A n \in 1..Len(out) :
        ~(out[n].kind = "edge" /\ out[n].cat = "item" /\ out[n].g = p[1] /\ out[n].i = p[2])

EntityOf(token) ==
    IF Find(token, ":") = 0 THEN token ELSE SubSeq(token, 1, Find(token, ":") - 1)

EntityNames ==
    {tree.group[g].name : g \in 1..Len(tree.group)}
    \cup {goals(tree)[k].name : k \in 1..Len(goals(tree))}

\* Every place of a requirement token: <<cat, g, i, t>>.
TokenPositions ==
    {<<"group", g, 0, t>> : g \in 1..Len(tree.group), t \in 1..(MaxReqs + 1)}
    \cup {<<"item", p[1], p[2], t>> : p \in ItemPositions, t \in 1..(MaxReqs + 1)}
    \cup {<<"goal", k, 0, t>> : k \in 1..Len(goals(tree)), t \in 1..(MaxReqs + 1)}

ListAt(q) ==
    CASE q[1] = "group" -> tree.group[q[2]].requires
      [] q[1] = "item" ->
            IF q[3] <= Len(tree.group[q[2]].items)
            THEN tree.group[q[2]].items[q[3]].requires ELSE None
      [] q[1] = "goal" -> goals(tree)[q[2]].requires

AllTokenPositions ==
    {q \in TokenPositions : ListAt(q).some /\ q[4] <= Len(ListAt(q).v)}

TokenAt(q) == ListAt(q).v[q[4]]

Dangling == {q \in AllTokenPositions : EntityOf(TokenAt(q)) \notin EntityNames}

\* C2: a tree holding a requirement token whose entity is neither a group nor a
\* goal is not rendered successfully (resolution fails with an invalid-reference
\* error), and no edge for that token is emitted.
C2_Claim ==
    \A q \in Dangling :
        /\ ~Succeeded
        /\ \A n \in 1..Len(out) :
              ~(out[n].kind = "edge" /\ <<out[n].cat, out[n].g, out[n].i, out[n].t>> = q)

CatRank(cat) == CASE cat = "group" -> 1 [] cat = "item" -> 2 [] cat = "goal" -> 3

EmittedBefore(a, b) ==
    LET ga == a.cat # "goal"
        gb == b.cat # "goal"
    IN  \/ ga /\ ~gb
        \/ /\ ga = gb
           /\ \/ a.g < b.g
              \/ /\ a.g = b.g
                 /\ \/ CatRank(a.cat) < CatRank(b.cat)
                    \/ /\ a.cat = b.cat
                       /\ \/ a.i < b.i
                          \/ a.i = b.i /\ a.t < b.t

Quoted(name) == "\"" \o Str(name) \o "\""

\* The length of the text of a token before its first ':' (all of it when it
\* has none).
NameLen(token) ==
    CHOOSE n \in 0..Len(token) :
        /\ \A m \in 1..n : token[m] # ":"
        /\ n = Len(token) \/ token[n + 1] = ":"

GoalNames == {goals(tree)[k].name : k \in 1..Len(goals(tree))}

\* The anchor of a token in a direction, as C4 states it.
Anchor(token, d) ==
    IF NameLen(token) < Len(token)
    THEN Quoted(SubSeq(token, 1, NameLen(token))) \o ":_"
         \o Str(SubSeq(token, NameLen(token) + 2, Len(token))) \o "_" \o d
    ELSE IF token \in GoalNames
    THEN Quoted(token)
    ELSE Quoted(token) \o ":all"

EdgeKey(l) == <<l.cat, l.g, l.i, l.t>>

\* The target of an edge line, by the kind of list its token is in.
TargetOf(l) ==
    CASE l.cat = "group" -> Anchor(tree.group[l.g].name, "in")
      [] l.cat = "item" ->
            Quoted(tree.group[l.g].name) \o ":_" \o tree.group[l.g].items[l.i].port.v \o "_in"
      [] l.cat = "goal" -> Quoted(goals(tree)[l.g].name)

ScenarioA == EdgeTree(1, 2, -1, NoPos, None, {})
ScenarioB == EdgeTree(1, 0, 1, NoPos, None, {})

\* C4: every edge line written is `<source> -> <target>;` where the source is
\* the anchor of its token in direction out: the quoted text before the first
\* ':' followed by :_<rest>_out when the token has a ':' (a goal name too),
\* else the quoted name alone for a goal, else the quoted name and :all; a goal
\* as target is its quoted name alone.  Scenario A yields exactly the edge
\* "basics":_a_out -> "basics":_b_in; and scenario B the edge
\* "basics":all -> "done";
C4_Anchors ==
    /\ \A n \in 1..Len(out) :
          out[n].kind = "edge" =>
              /\ out[n].src = Anchor(TokenAt(EdgeKey(out[n])), "out")
              /\ out[n].dst = TargetOf(out[n])
              /\ out[n].text = out[n].src \o " -> " \o out[n].dst \o ";"
    /\ (Succeeded /\ tree = ScenarioA) =>
          /\ Len(EdgesOf(out)) = 1
          /\ EdgesOf(out)[1].text = "\"basics\":_a_out -> \"basics\":_b_in;"
    /\ (Succeeded /\ tree = ScenarioB) =>
          \E n \in 1..Len(out) : out[n].text = "\"basics\":all -> \"done\";"

\* A successful render with an edge from a port of a goal name, an edge from a
\* goal and an edge from a group's header.
C4_Witness ==
    /\ Succeeded
    /\ \E n \in 1..Len(out) : out[n].kind = "edge" /\ out[n].src = "\"done\":_x_out"
    /\ \E n \in 1..Len(out) : out[n].kind = "edge" /\ out[n].src = "\"done\""
    /\ \E n \in 1..Len(out) : out[n].kind = "edge" /\ out[n].src = "\"basics\":all"

\* The inert style: no emoji, no colours, empty tags.
Inert == [emoji |-> None, bgcolor |-> None, fontcolor |-> None,
          start_tag |-> "", end_tag |-> ""]

\* The status name of the item at p: the first present of the item's, the
\* group's and the tree's.
SpecStatusName(p) ==
    IF ItemAt(p).status.some THEN ItemAt(p).status
    ELSE IF tree.group[p[1]].status.some THEN tree.group[p[1]].status
    ELSE tree.default_status

SpecStyle(p) ==
    IF SpecStatusName(p).some /\ SpecStatusName(p).v \in DOMAIN tree.status
    THEN tree.status[SpecStatusName(p).v]
    ELSE Inert

SpecAttr(name, opt) == IF opt.some THEN " " \o name \o "=\"" \o opt.v \o "\"" ELSE ""

\* C5: the row of every item carries the emoji and colours of the registry
\* entry for the first present of the item's, the group's and the tree's status
\* name, and those of the inert style when no name is present or the name is
\* not in the registry (an unknown name does not fall through to the next
\* level); the row's tags are the style's when the item has no hyperlink; a
\* render into a Vec of a tree whose items with requirements have ports
\* succeeds.
C5_Cascade ==
    /\ \A n \in 1..Len(out) :
          out[n].kind = "row" =>
              LET p == <<out[n].g, out[n].i>> IN
              /\ out[n].emoji = (IF SpecStyle(p).emoji.some THEN SpecStyle(p).emoji.v ELSE "")
              /\ out[n].bgcolor = SpecAttr("bgcolor", SpecStyle(p).bgcolor)
              /\ out[n].fontcolor = SpecAttr("fontcolor", SpecStyle(p).fontcolor)
              /\ ~ItemAt(p).href.some =>
                    /\ out[n].start_tag = SpecStyle(p).start_tag
                    /\ out[n].end_tag = SpecStyle(p).end_tag
    /\ (Finished /\ entry = "to_graphviz" /\ Offending = {}) => Succeeded

\* A successful render with a row of an item whose own status name is not in
\* the registry while its group's is: the row has the inert style.
C5_Witness ==
    /\ Succeeded
    /\ \E n \in 1..Len(out) :
          /\ out[n].kind = "row"
          /\ ItemAt(<<out[n].g, out[n].i>>).status.some
          /\ ItemAt(<<out[n].g, out[n].i>>).status.v \notin DOMAIN tree.status
          /\ tree.group[out[n].g].status.some
          /\ tree.group[out[n].g].status.v \in DOMAIN tree.status
          /\ out[n].emoji = "" /\ out[n].bgcolor = ""

NodeCloses == SelectSeq(out, LAMBDA l : l.kind = "node_close")

\* Once rendering has failed: it has ended, no string is returned, the closing
\* line is not in the sink, and after a missing-port error the header and every
\* node declaration are.
C6_Failed ==
    Failed =>
        /\ pc = "done"
        /\ "string" \notin DOMAIN result
        /\ \A n \in 1..Len(out) : out[n].kind # "end"
        /\ result.kind = "missing_port" =>
              /\ IsPrefix(HeaderLines, out)
              /\ Len(NodeCloses) = Len(tree.group) + Len(goals(tree))

\* A step after the failure writes nothing; the step that fails keeps what
\* the sink held, and a missing-port error adds nothing to it.
C6_Step ==
    /\ Failed => (out' = out /\ result' = result)
    /\ (~Failed /\ Failed') => IsPrefix(out, out')
    /\ (~Failed /\ result'.kind = "missing_port") => out' = out

\* C6: emission is fail-fast and does not rewind.
C6_FailFast == [](C6_Failed) /\ [][C6_Step]_vars

\* A write of an edge failed after earlier edges were written.
C6_Witness ==
    /\ result.kind = "io"
    /\ pc = "done"
    /\ EdgesOf(out) # <<>>
    /\ idx <= Len(EdgeJobs(tree))

SameList(a, b) == a[1] = b[1] /\ a[2] = b[2] /\ a[3] = b[3]

\* The places of tokens that repeat an earlier token of their list.
Repeats ==
    {q \in AllTokenPositions :
        \E r \in AllTokenPositions : SameList(q, r) /\ r[4] < q[4] /\ TokenAt(r) = TokenAt(q)}

Labelled == {"goal_label", "group_header", "row"}

\* C8: no label embedded in the output holds a raw <, >, &, " or newline:
\* goal labels, group header labels and item labels are escaped alike.
C8_Claim ==
    \A n \in 1..Len(out) :
        out[n].kind \in Labelled =>
            \A k \in 1..Len(out[n].label) :
                out[n].label[k] \notin {"<", ">", "&", "\"", "\n"}

\* C9 as stated: the underline tags wrap the label exactly when the item has a
\* hyperlink and the start tag and the end tag of its style are both empty;
\* otherwise the row has the style's own tags.
C9_Original ==
    \A n \in 1..Len(out) :
        out[n].kind = "row" =>
            LET p == <<out[n].g, out[n].i>> IN
            IF ItemAt(p).href.some /\ SpecStyle(p).start_tag = "" /\ SpecStyle(p).end_tag = ""
            THEN out[n].start_tag = "<u>" /\ out[n].end_tag = "</u>"
            ELSE out[n].start_tag = SpecStyle(p).start_tag
                 /\ out[n].end_tag = SpecStyle(p).end_tag

C9_Rows ==
    \A n \in 1..Len(out) :
        out[n].kind = "row" =>
            LET p == <<out[n].g, out[n].i>> IN
            IF ItemAt(p).href.some /\ SpecStyle(p).start_tag = ""
            THEN out[n].start_tag = "<u>" /\ out[n].end_tag = "</u>"
            ELSE out[n].start_tag = SpecStyle(p).start_tag
                 /\ out[n].end_tag = SpecStyle(p).end_tag

\* C9 as amended: the underline tags wrap the label exactly when the item has a
\* hyperlink and the start tag of its style is empty (whatever its end tag,
\* which is then replaced); otherwise the row has the style's own tags; and
\* rendering never changes the tree, so never the registry.
C9_Amended == [](C9_Rows) /\ [][tree' = tree]_vars

\* A row of an item with a hyperlink whose style has an empty start tag and an
\* end tag: the row is underlined.
C9_Witness ==
    \E n \in 1..Len(out) :
        /\ out[n].kind = "row"
        /\ ItemAt(<<out[n].g, out[n].i>>).href.some
        /\ SpecStyle(<<out[n].g, out[n].i>>).start_tag = ""
        /\ SpecStyle(<<out[n].g, out[n].i>>).end_tag # ""
        /\ out[n].start_tag = "<u>"
        /\ out[n].end_tag = "</u>"

Kinds(lines) == [n \in 1..Len(lines) |-> lines[n].kind]
Texts(lines) == [n \in 1..Len(lines) |-> lines[n].text]
Rep(k, n) == [m \in 1..n |-> k]

GroupShape(g) ==
    <<"group_open", "table_open", "group_header">>
    \o Rep("row", Len(tree.group[g].items))
    \o <<"table_close", "attr", "attr", "node_close">>

GoalShape == <<"goal_open", "goal_label", "attr", "attr", "attr", "attr", "node_close">>

ExpectedShape ==
    Rep("header", 4)
    \o Flatten([g \in 1..Len(tree.group) |-> GroupShape(g)])
    \o Flatten([k \in 1..Len(goals(tree)) |-> GoalShape])
    \o Rep("edge", Len(EdgesOf(out)))
    \o <<"end">>

\* C10: a successful render is the four header lines, one node declaration per
\* group in declaration order (one row per item), one per goal in declaration
\* order, the edge lines, and the closing line last; no edge line ever precedes
\* a line of a node declaration; the row of an item without a port has no port
\* attribute.
C10_Shape ==
    /\ Succeeded =>
          /\ Kinds(out) = ExpectedShape
          /\ Texts(SubSeq(out, 1, 4)) =
                << "digraph g {", "graph [ rankdir = \"LR\" ];",
                   "node [ fontsize=\"16\", shape = \"ellipse\" ];", "edge [ ];" >>
          /\ out[Len(out)].text = "}"
          /\ Texts(SelectSeq(out, LAMBDA l : l.kind = "group_open")) =
                [g \in 1..Len(tree.group) |-> Quoted(tree.group[g].name) \o " ["]
          /\ Texts(SelectSeq(out, LAMBDA l : l.kind = "goal_open")) =
                [k \in 1..Len(goals(tree)) |-> Quoted(goals(tree)[k].name) \o " ["]
    /\ \A m, n \in 1..Len(out) :
          (m < n /\ out[m].kind = "edge") => out[n].kind \in {"edge", "end"}
    /\ \A n \in 1..Len(out) :
          (out[n].kind = "row" /\ ~ItemAt(<<out[n].g, out[n].i>>).port.some) =>
              out[n].port_in = "" /\ out[n].port_out = ""

\* A successful render of two groups and a goal, with edges, where an item
\* without a port has its row.
C10_Witness ==
    /\ Succeeded
    /\ Len(tree.group) >= 2
    /\ Len(goals(tree)) >= 1
    /\ EdgesOf(out) # <<>>
    /\ \E n \in 1..Len(out) :
          out[n].kind = "row" /\ ~ItemAt(<<out[n].g, out[n].i>>).port.some

====
